---- MODULE Spec2Model ----
(***************************************************************************)
(* State-machine model of the MCP tool-server client (mcp_client.py) and   *)
(* of the tool-calling orchestration loop (main.py).                       *)
(*                                                                         *)
(* All coroutines run on one asyncio event loop: a step of the model is    *)
(* the code a coroutine runs between two suspension points (an awaited     *)
(* asyncio.sleep, an awaited run_in_executor).  The child's stdout is a    *)
(* blocking pipe: readline() returns only when a line is there or the pipe *)
(* is at end of file, and while it waits no other coroutine runs.          *)
(***************************************************************************)
EXTENDS Integers, Sequences, FiniteSets, TLC

(* ------------------------------ inputs --------------------------------- *)

\* The configuration mapping, in the order load_servers iterates it.
Config == <<"s1", "s2">>

Servers == {Config[i] : i \in 1..Len(Config)}

\* The tool names each child lists in a well-formed tools/list result.
ServerTools == [s \in Servers |-> IF s = "s1" THEN <<"ping", "echo">> ELSE <<"echo">>]

\* The user turns that may be started (handle_send_message tasks).
Turns == {"t1", "t2"}

Loader == "loader"

Callers == {Loader} \cup Turns

max_attempts == 10

max_iterations == 10

\* Longest sequence of tool-call blocks in one model response.
MaxBlocks == 2

\* Number of model responses carrying tool-call blocks, over all turns of a run.
MaxToolResponses == 2

\* The variable names an "env" value may reference as ${NAME}.
EnvNames == {"A", "B"}

\* Most entries in one server's "env" mapping.
MaxEnvEntries == 2

\* Most pieces (literal text, ${NAME} references) in one "env" value.
MaxEnvTokens == 2

\* Most shutdown() tasks started in one run (action_quit invoked again).
MaxShutdowns == 2

\* Most resets of the conversation in one run.
MaxResets == 1

(* ------------------------------ values --------------------------------- *)

\* os.getenv's None: the variable is not in the environment.
Unset == "<unset>"

\* A piece of an "env" value: literal text, or a ${NAME} reference.
Tokens == {[ref |-> FALSE, text |-> "x"]} \cup {[ref |-> TRUE, text |-> n] : n \in EnvNames}

EnvValues == UNION {[1..n -> Tokens] : n \in 0..MaxEnvTokens}

\* An "env" mapping: its values in the order items() yields them.
EnvTemplates == UNION {[1..n -> EnvValues] : n \in 0..MaxEnvEntries}

\* An empty mapping, and one whose single value is the reference ${A}.
BasicTemplates == {<<>>, <<(<<[ref |-> TRUE, text |-> "A"]>>)>>}

\* The environments a run may start in: each name absent, empty, or set.
Environs == [EnvNames -> {Unset, "", "v"}]

NoEnviron == [n \in EnvNames |-> Unset]

\* MCPServer.env before __init__ has assigned it.
NoEnv == [set |-> FALSE, env |-> <<>>]

\* Python's None as a parsed response.
None == [kind |-> "none", id |-> 0, payload |-> "none"]

NoReq == [srv |-> "none", id |-> 0, method |-> "none"]

Request(s, i, m) == [srv |-> s, id |-> i, method |-> m]

\* JSON that is no object (a non-empty array), as a line answering request r.
NonObjectReply(r) == [kind |-> "nonobject", id |-> r.id, payload |-> "array"]

\* The lines a child may emit in answer to request r: a response object with
\* a result or with an error, or text that is not JSON ("garbage").
Replies(r) ==
  LET payloads == IF r.method = "tools/list" THEN {"tools", "notools", "partial"}
                  ELSE IF r.method = "initialize" THEN {"caps"}
                  ELSE {"text"}
  IN  {[kind |-> "result", id |-> r.id, payload |-> p] : p \in payloads}
        \cup {[kind |-> "error", id |-> r.id, payload |-> "none"],
              [kind |-> "garbage", id |-> r.id, payload |-> "none"]}

VARIABLES
  raw_result,     \* _extract_content_from_result: the raw tool response it is given
  extracted,      \* _extract_content_from_result: the string it has returned, if any
  env,            \* config: each server's "env" mapping, as written
  environ,        \* os.environ: the ambient value of each variable name
  self_env,       \* MCPServer.env: the resolved mapping start() gives to Popen
  servers,        \* MCPClient.servers, in insertion order
  process,        \* MCPServer.process: "none", "running" or "exited"
  termSent,       \* process.terminate() has been called on a live child
  connected,      \* MCPServer.connected
  tools,          \* MCPServer.tools (names, in order)
  next_id,        \* MCPServer.next_id
  issued,         \* history: the ids _get_next_id returned, in order
  sent,           \* history: what was written to the child's stdin, in order
  pending,        \* requests the child has received and not answered
  stdout,         \* lines the child has emitted and nobody has read
  loadIdx,        \* load_servers: position in Config
  startResult,    \* history: what start() returned: "none", "ok", "failed"
  initResponse,   \* _initialize: the local `response`
  listResponse,   \* _list_tools: the local `response`
  pc,             \* each coroutine's suspension point
  req,            \* _send_request: the request being waited for
  attempts,       \* _send_request: completed iterations of the polling loop
  sleepQ,         \* the coroutines inside asyncio.sleep(0.1), earliest deadline first
  lastReply,      \* history: the last request of each caller and what it was handed
  iteration,      \* send_message_to_gemini: the local `iteration`
  current_message,        \* ... the local `current_message`
  response,       \* ... the local `response` (the model's last answer)
  blockIdx,       \* ... position of the for loop over tool_calls
  tool_results,   \* ... the local `tool_results`
  response_with_results,  \* ... the local `response_with_results`
  iterLog,        \* log_message calls of the current iteration
  outcome,        \* what the turn returned or raised to handle_send_message
  modelCalls,     \* history: chat_session.send_message calls of the turn
  productive,     \* history: iterations of the turn that ended with tool results
  dispatched,     \* history: tools/call requests the turn has issued
  truncLogged,    \* the "Maximum tool calling iterations reached" event
  toolResponses,  \* model responses with tool-call blocks so far (all turns)
  chat_session,   \* MCPClientApp.chat_session: the number of the model session
  startedOn,      \* history: the session the turn's user message was sent to
  sentOn,         \* history: the session the turn's last message was sent to
  shutdownPc,     \* MCPClient.shutdown: "idle", "wait" (inside stop()) or "done"
  shutdownIdx,    \* MCPClient.shutdown: position of its loop in the server map
  shutdowns,      \* history: shutdown() tasks started
  terminated,     \* history: servers whose stop() called process.terminate()
  killed,         \* history: servers whose stop() called process.kill()
  stopReturns     \* history: stop() calls that have returned, per server

srvVars == <<process, termSent, connected, tools, next_id, issued, sent, pending, stdout>>

loadVars == <<env, environ, self_env, servers, loadIdx, startResult, initResponse, listResponse>>

callVars == <<pc, req, attempts, sleepQ, lastReply>>

turnVars == <<iteration, current_message, response, blockIdx, tool_results,
              response_with_results, iterLog, outcome, modelCalls, productive,
              dispatched, truncLogged, toolResponses, chat_session, startedOn, sentOn>>

stopVars == <<shutdownPc, shutdownIdx, shutdowns, terminated, killed, stopReturns>>

extractVars == <<raw_result, extracted>>

vars == <<srvVars, loadVars, callVars, turnVars, stopVars, extractVars>>

(* --------------------------- pure helpers ------------------------------ *)

\* Variant of Getenv with a default: os.getenv(var_name, "").
GetenvDefault(name) == IF environ[name] = Unset THEN "" ELSE environ[name]

\* os.getenv(var_name).
Getenv(name) == environ[name]

\* re.sub over one value, left to right: replace_env_var gives the ambient
\* value of each reference, or raises ValueError naming the variable.
RECURSIVE ReplaceRefs(_, _, _)
ReplaceRefs(value, j, acc) ==
  IF j > Len(value) THEN [kind |-> "ok", value |-> acc, name |-> ""]
  ELSE IF value[j].ref
       THEN IF Getenv(value[j].text) = Unset
            THEN [kind |-> "error", value |-> <<>>, name |-> value[j].text]
            ELSE ReplaceRefs(value, j + 1, Append(acc, Getenv(value[j].text)))
       ELSE ReplaceRefs(value, j + 1, Append(acc, value[j].text))

\* The loop of _resolve_env_variables over env_dict.items() from entry i on.
RECURSIVE ResolveFrom(_, _, _, _)
ResolveFrom(env_dict, i, resolved_env, s) ==
  IF i > Len(env_dict) THEN [kind |-> "ok", env |-> resolved_env, name |-> "", server |-> s]
  ELSE LET v == ReplaceRefs(env_dict[i], 1, <<>>) IN
       IF v.kind = "error"
       THEN [kind |-> "error", env |-> <<>>, name |-> v.name, server |-> s]
       ELSE ResolveFrom(env_dict, i + 1, Append(resolved_env, v.value), s)

\* _resolve_env_variables on the configured mapping of server s: the resolved
\* mapping, or the ValueError with the names its message carries.
ResolveEnvVariables(s) == ResolveFrom(env[s], 1, <<>>, s)

\* _resolve_env_variables raises ValueError when a referenced variable is absent.
ResolveEnvRaises(s) == ResolveEnvVariables(s).kind = "error"

\* process.stdin.write / flush succeed while the child holds the pipe's read end.
WriteOk(s) == process[s] = "running"

\* json.loads(response_str): a line that is not JSON yields None.
ParseLine(line) == IF line.kind = "garbage" THEN None ELSE line

\* Variant of InitFailed without the test for an "error" field.
InitFailedNoErrorTest(resp) == resp = None

\* _initialize: `if not response or "error" in response: raise`.
InitFailed(resp) == resp = None \/ resp.kind = "error"

\* An error message is logged in the course of the tools/list exchange that
\* ended with `resp`: by _send_request when it returns None, by _list_tools
\* for an error response or an exception of the parsing loop.  A result
\* without a "tools" member passes both tests of _list_tools unlogged.
ListAnomalyLogged(resp) ==
  \/ resp = None
  \/ resp.kind = "error"
  \/ resp.kind = "result" /\ resp.payload = "partial"

\* Variant of ParseTools that stops before the last descriptor.
ParseToolsShort(s, resp, old) ==
  IF resp.kind = "result" /\ resp.payload \in {"tools", "partial"}
  THEN SubSeq(ServerTools[s], 1, Len(ServerTools[s]) - 1)
  ELSE old

\* _list_tools: the tool list left in self.tools by the parsing loop.
ParseTools(s, resp, old) ==
  IF resp.kind = "result" /\ resp.payload = "tools" THEN ServerTools[s]
  ELSE IF resp.kind = "result" /\ resp.payload = "partial"
       THEN SubSeq(ServerTools[s], 1, Len(ServerTools[s]) - 1)
  ELSE old

\* Variant of NextIdAfter that leaves the counter where it is.
NextIdSame(n) == n

\* _get_next_id: the value next_id takes after an id has been handed out.
NextIdAfter(n) == n + 1

\* No coroutine is inside a blocking readline(): the event loop can run a step.
LoopFree == \A c \in Callers : pc[c] # "reading"

\* load_servers moves on to the next configured server.
AfterServer == IF loadIdx + 1 > Len(Config) THEN "done" ELSE "next"

\* on_mount has returned: the loader has finished or start_mcp_servers caught
\* the exception that ended it.
Mounted == pc[Loader] \in {"done", "aborted"}

(* ------------------------------- Init ---------------------------------- *)

NoResponse == [rid |-> 0, blocks |-> <<>>]

NoOutcome == [kind |-> "none", text |-> [rid |-> 0, items |-> <<>>]]

UserMessage == [kind |-> "user", results |-> <<>>]

NoReply == [req |-> NoReq, line |-> None]

\* No call of _extract_content_from_result is under way.
NoRaw == [t |-> "none"]

\* The state after MCPClientApp.__init__, for a configuration whose "env"
\* mappings are among `templates` and an environment among `environs`.
InitWith(templates, environs) ==
  /\ env \in [Servers -> templates]
  /\ environ \in environs
  /\ self_env = [s \in Servers |-> NoEnv]
  /\ servers = <<>>
  /\ process = [s \in Servers |-> "none"]
  /\ termSent = [s \in Servers |-> FALSE]
  /\ connected = [s \in Servers |-> FALSE]
  /\ tools = [s \in Servers |-> <<>>]
  /\ next_id = [s \in Servers |-> 1]
  /\ issued = [s \in Servers |-> <<>>]
  /\ sent = [s \in Servers |-> <<>>]
  /\ pending = [s \in Servers |-> {}]
  /\ stdout = [s \in Servers |-> <<>>]
  /\ loadIdx = 1
  /\ startResult = [s \in Servers |-> "none"]
  /\ initResponse = [s \in Servers |-> None]
  /\ listResponse = [s \in Servers |-> None]
  /\ pc = [c \in Callers |-> IF c = Loader THEN "next" ELSE "idle"]
  /\ req = [c \in Callers |-> NoReq]
  /\ attempts = [c \in Callers |-> 0]
  /\ sleepQ = <<>>
  /\ lastReply = [c \in Callers |-> NoReply]
  /\ iteration = [t \in Turns |-> 0]
  /\ current_message = [t \in Turns |-> UserMessage]
  /\ response = [t \in Turns |-> NoResponse]
  /\ blockIdx = [t \in Turns |-> 0]
  /\ tool_results = [t \in Turns |-> <<>>]
  /\ response_with_results = [t \in Turns |-> <<>>]
  /\ iterLog = [t \in Turns |-> <<>>]
  /\ outcome = [t \in Turns |-> NoOutcome]
  /\ modelCalls = [t \in Turns |-> 0]
  /\ productive = [t \in Turns |-> 0]
  /\ dispatched = [t \in Turns |-> 0]
  /\ truncLogged = [t \in Turns |-> FALSE]
  /\ toolResponses = 0
  /\ chat_session = 0
  /\ startedOn = [t \in Turns |-> 0]
  /\ sentOn = [t \in Turns |-> 0]
  /\ shutdownPc = "idle"
  /\ shutdownIdx = 0
  /\ shutdowns = 0
  /\ terminated = {}
  /\ killed = {}
  /\ stopReturns = [s \in Servers |-> 0]
  /\ raw_result = NoRaw
  /\ extracted = <<>>

\* Each server's "env" is empty or references one variable, which is absent.
Init == InitWith(BasicTemplates, {NoEnviron})

(* ------------------------- the child processes ------------------------- *)

\* The child answers one of the requests it has received.
ServerRespond(s) ==
  /\ process[s] = "running"
  /\ \E r \in pending[s] : \E line \in Replies(r) :
       /\ pending' = [pending EXCEPT ![s] = @ \ {r}]
       /\ stdout' = [stdout EXCEPT ![s] = Append(@, line)]
  /\ UNCHANGED <<process, termSent, connected, tools, next_id, issued, sent>>
  /\ UNCHANGED <<loadVars, callVars, turnVars>>
  /\ UNCHANGED <<stopVars, extractVars>>

\* The child answers one of the requests it has received with a line of
\* valid JSON that is not a response object.
ServerRespondNonObject(s) ==
  /\ process[s] = "running"
  /\ \E r \in pending[s] :
       /\ pending' = [pending EXCEPT ![s] = @ \ {r}]
       /\ stdout' = [stdout EXCEPT ![s] = Append(@, NonObjectReply(r))]
  /\ UNCHANGED <<process, termSent, connected, tools, next_id, issued, sent>>
  /\ UNCHANGED <<loadVars, callVars, turnVars>>
  /\ UNCHANGED <<stopVars, extractVars>>

\* The child exits (on its own, or after a termination signal).
ServerExit(s) ==
  /\ process[s] = "running"
  /\ process' = [process EXCEPT ![s] = "exited"]
  /\ UNCHANGED <<termSent, connected, tools, next_id, issued, sent, pending, stdout>>
  /\ UNCHANGED <<loadVars, callVars, turnVars>>
  /\ UNCHANGED <<stopVars, extractVars>>

(* ---------------------------- _send_request ---------------------------- *)

\* readline() can return: a line is there, or the pipe is at end of file.
Available(c) == stdout[req[c].srv] # <<>> \/ process[req[c].srv] # "running"

\* The coroutine is at its readline() call: asyncio.sleep(0.1) is over and
\* the event loop resumes it, or it is already blocked inside the call.
AtReadline(c) == (pc[c] = "sleep" /\ LoopFree /\ Head(sleepQ) = c) \/ pc[c] = "reading"

\* The sleepers left when c has resumed (all sleeps last 0.1 s, so the timers
\* fire in the order they were set).
Woken(c) == IF pc[c] = "sleep" THEN Tail(sleepQ) ELSE sleepQ

CanRead(c) == AtReadline(c) /\ Available(c)

\* The coroutine wakes and readline() has nothing to return: it blocks, and
\* the event loop with it.
PollBlock(c) ==
  /\ pc[c] = "sleep"
  /\ LoopFree
  /\ Head(sleepQ) = c
  /\ ~Available(c)
  /\ pc' = [pc EXCEPT ![c] = "reading"]
  /\ sleepQ' = Tail(sleepQ)
  /\ UNCHANGED <<req, attempts, lastReply>>
  /\ UNCHANGED <<srvVars, loadVars, turnVars>>
  /\ UNCHANGED <<stopVars, extractVars>>

\* readline() returned "" and the polling loop has attempts left: sleep again.
ReadRetry(c) ==
  /\ CanRead(c)
  /\ stdout[req[c].srv] = <<>>
  /\ attempts[c] + 1 < max_attempts
  /\ attempts' = [attempts EXCEPT ![c] = @ + 1]
  /\ pc' = [pc EXCEPT ![c] = "sleep"]
  /\ sleepQ' = Append(Woken(c), c)
  /\ UNCHANGED <<req, lastReply>>
  /\ UNCHANGED <<srvVars, loadVars, turnVars>>
  /\ UNCHANGED <<stopVars, extractVars>>

\* The polling loop ends: with a line, or with its last attempt used up.
ReadDone(c) ==
  /\ CanRead(c)
  /\ stdout[req[c].srv] # <<>> \/ attempts[c] + 1 >= max_attempts

\* What _send_request returns when the polling loop ends.
Received(c) ==
  IF stdout[req[c].srv] # <<>> THEN ParseLine(Head(stdout[req[c].srv])) ELSE None

\* stdout after the read.
StdoutAfterRead(c) ==
  IF stdout[req[c].srv] # <<>> THEN [stdout EXCEPT ![req[c].srv] = Tail(@)] ELSE stdout

(* ----------------------------- load_servers ---------------------------- *)

\* Variant of StartFails in which the exception leaves load_servers.
StartFailsAborts(s) ==
  /\ termSent' = [termSent EXCEPT ![s] = @ \/ process[s] = "running"]
  /\ startResult' = [startResult EXCEPT ![s] = "failed"]
  /\ loadIdx' = loadIdx
  /\ pc' = [pc EXCEPT ![Loader] = "aborted"]

\* start() caught an exception: terminate the child if there is one, return False.
StartFails(s) ==
  /\ termSent' = [termSent EXCEPT ![s] = @ \/ process[s] = "running"]
  /\ startResult' = [startResult EXCEPT ![s] = "failed"]
  /\ loadIdx' = loadIdx + 1
  /\ pc' = [pc EXCEPT ![Loader] = AfterServer]

\* One iteration of load_servers up to start()'s sleep: construct the handle,
\* register it, spawn the child.
LoadServer ==
  /\ pc[Loader] = "next"
  /\ LoopFree
  /\ LET s == Config[loadIdx] IN
       IF ResolveEnvRaises(s)
       THEN /\ pc' = [pc EXCEPT ![Loader] = "aborted"]
            /\ UNCHANGED <<srvVars, loadVars, req, attempts, sleepQ, lastReply>>
       ELSE /\ self_env' = [self_env EXCEPT ![s] = [set |-> TRUE, env |-> ResolveEnvVariables(s).env]]
            /\ servers' = Append(servers, s)
            /\ \E spawned \in BOOLEAN :
                 IF spawned
                 THEN /\ process' = [process EXCEPT ![s] = "running"]
                      /\ pc' = [pc EXCEPT ![Loader] = "grace"]
                      /\ UNCHANGED <<termSent, startResult, loadIdx>>
                 ELSE /\ StartFails(s)
                      /\ UNCHANGED process
            /\ UNCHANGED <<connected, tools, next_id, issued, sent, pending, stdout>>
            /\ UNCHANGED <<env, environ, initResponse, listResponse, req, attempts, sleepQ, lastReply>>
  /\ UNCHANGED turnVars
  /\ UNCHANGED <<stopVars, extractVars>>

\* start() after the grace sleep: poll the child, then _initialize writes the
\* initialize request.
GraceCheck ==
  /\ pc[Loader] = "grace"
  /\ LoopFree
  /\ LET s == Config[loadIdx] IN
       IF process[s] # "running"
       THEN /\ StartFails(s)
            /\ UNCHANGED <<process, connected, tools, next_id, issued, sent, pending, stdout>>
            /\ UNCHANGED <<env, environ, self_env, servers, initResponse, listResponse>>
            /\ UNCHANGED <<req, attempts, sleepQ, lastReply>>
       ELSE /\ next_id' = [next_id EXCEPT ![s] = NextIdAfter(@)]
            /\ issued' = [issued EXCEPT ![s] = Append(@, next_id[s])]
            /\ sent' = [sent EXCEPT ![s] = Append(@, [id |-> next_id[s], method |-> "initialize"])]
            /\ pending' = [pending EXCEPT ![s] = @ \cup {[id |-> next_id[s], method |-> "initialize"]}]
            /\ req' = [req EXCEPT ![Loader] = Request(s, next_id[s], "initialize")]
            /\ attempts' = [attempts EXCEPT ![Loader] = 0]
            /\ pc' = [pc EXCEPT ![Loader] = "sleep"]
            /\ sleepQ' = Append(sleepQ, Loader)
            /\ UNCHANGED <<process, termSent, connected, tools, stdout>>
            /\ UNCHANGED <<loadVars, lastReply>>
  /\ UNCHANGED turnVars
  /\ UNCHANGED <<stopVars, extractVars>>

\* _initialize after the initialize exchange: check the response, write the
\* notification, then _list_tools writes the tools/list request.
InitReply ==
  /\ ReadDone(Loader)
  /\ req[Loader].method = "initialize"
  /\ LET s == req[Loader].srv
         r == Received(Loader)
     IN  /\ initResponse' = [initResponse EXCEPT ![s] = r]
         /\ lastReply' = [lastReply EXCEPT ![Loader] = [req |-> req[Loader], line |-> r]]
         /\ stdout' = StdoutAfterRead(Loader)
         /\ IF InitFailed(r)
            THEN /\ StartFails(s)
                 /\ req' = [req EXCEPT ![Loader] = NoReq]
                 /\ attempts' = [attempts EXCEPT ![Loader] = 0]
                 /\ sleepQ' = Woken(Loader)
                 /\ UNCHANGED <<process, connected, tools, next_id, issued, sent, pending>>
                 /\ UNCHANGED <<env, environ, self_env, servers, listResponse>>
            ELSE /\ next_id' = [next_id EXCEPT ![s] = NextIdAfter(@)]
                 /\ issued' = [issued EXCEPT ![s] = Append(@, next_id[s])]
                 /\ IF WriteOk(s)
                    THEN /\ sent' = [sent EXCEPT ![s] =
                                       @ \o <<[id |-> 0, method |-> "notifications/initialized"],
                                              [id |-> next_id[s], method |-> "tools/list"]>>]
                         /\ pending' = [pending EXCEPT ![s] =
                                          @ \cup {[id |-> next_id[s], method |-> "tools/list"]}]
                         /\ req' = [req EXCEPT ![Loader] = Request(s, next_id[s], "tools/list")]
                         /\ attempts' = [attempts EXCEPT ![Loader] = 0]
                         /\ pc' = [pc EXCEPT ![Loader] = "sleep"]
                         /\ sleepQ' = Append(Woken(Loader), Loader)
                         /\ UNCHANGED <<connected, startResult, loadIdx>>
                    ELSE /\ connected' = [connected EXCEPT ![s] = TRUE]
                         /\ startResult' = [startResult EXCEPT ![s] = "ok"]
                         /\ loadIdx' = loadIdx + 1
                         /\ pc' = [pc EXCEPT ![Loader] = AfterServer]
                         /\ req' = [req EXCEPT ![Loader] = NoReq]
                         /\ attempts' = [attempts EXCEPT ![Loader] = 0]
                         /\ sleepQ' = Woken(Loader)
                         /\ UNCHANGED <<sent, pending>>
                 /\ UNCHANGED <<process, termSent, tools>>
                 /\ UNCHANGED <<env, environ, self_env, servers, listResponse>>
  /\ UNCHANGED turnVars
  /\ UNCHANGED <<stopVars, extractVars>>

\* _list_tools after the tools/list exchange, then _initialize sets connected
\* and start() returns True.
ListReply ==
  /\ ReadDone(Loader)
  /\ req[Loader].method = "tools/list"
  /\ LET s == req[Loader].srv
         r == Received(Loader)
     IN  /\ listResponse' = [listResponse EXCEPT ![s] = r]
         /\ lastReply' = [lastReply EXCEPT ![Loader] = [req |-> req[Loader], line |-> r]]
         /\ stdout' = StdoutAfterRead(Loader)
         /\ tools' = [tools EXCEPT ![s] = ParseTools(s, r, @)]
         /\ connected' = [connected EXCEPT ![s] = TRUE]
         /\ startResult' = [startResult EXCEPT ![s] = "ok"]
         /\ loadIdx' = loadIdx + 1
         /\ pc' = [pc EXCEPT ![Loader] = AfterServer]
         /\ req' = [req EXCEPT ![Loader] = NoReq]
         /\ attempts' = [attempts EXCEPT ![Loader] = 0]
         /\ sleepQ' = Woken(Loader)
  /\ UNCHANGED <<process, termSent, next_id, issued, sent, pending>>
  /\ UNCHANGED <<env, environ, self_env, servers, initResponse>>
  /\ UNCHANGED turnVars
  /\ UNCHANGED <<stopVars, extractVars>>

LoaderNext == LoadServer \/ GraceCheck \/ InitReply \/ ListReply

(* ------------------------- MCPClient.call_tool ------------------------- *)

Range(f) == {f[i] : i \in DOMAIN f}

\* Variant of Owners without the test of the connected flag.
OwnersAnyServer(name) ==
  {i \in 1..Len(servers) : name \in Range(tools[servers[i]])}

\* Positions in the server map of the connected servers listing tool `name`.
Owners(name) ==
  {i \in 1..Len(servers) : connected[servers[i]] /\ name \in Range(tools[servers[i]])}

\* Variant of Lookup that takes the last match in the order of the server map.
LookupLast(name) ==
  IF Owners(name) = {} THEN "none"
  ELSE servers[CHOOSE i \in Owners(name) : \A j \in Owners(name) : i >= j]

\* The server MCPClient.call_tool dispatches `name` to: the first match in
\* the order of the server map, or "none".
Lookup(name) ==
  IF Owners(name) = {} THEN "none"
  ELSE servers[CHOOSE i \in Owners(name) : \A j \in Owners(name) : i <= j]

\* The descriptors _list_tools stored on server s, each carrying its name.
ServerToolList(s) == [j \in 1..Len(tools[s]) |-> [name |-> tools[s][j], server_name |-> s]]

\* Variant of Contributes without the test of the connected flag.
ContributesAlways(s) == TRUE

\* get_all_tools: `if server.connected`.
Contributes(s) == connected[s]

\* The loop of get_all_tools over servers.values() from position i on.
RECURSIVE AllToolsFrom(_)
AllToolsFrom(i) ==
  IF i > Len(servers) THEN <<>>
  ELSE (IF Contributes(servers[i]) THEN ServerToolList(servers[i]) ELSE <<>>)
         \o AllToolsFrom(i + 1)

GetAllTools == AllToolsFrom(1)

\* get_tools_summary: the fixed "no tools" text, or one line per tool.
GetToolsSummary ==
  IF GetAllTools = <<>> THEN [empty |-> TRUE, lines |-> <<>>]
  ELSE [empty |-> FALSE, lines |-> [i \in 1..Len(GetAllTools) |-> GetAllTools[i].name]]

(* ------------------------ stop and shutdown ---------------------------- *)

\* Variant of Kill that leaves the child alone.
KillSkipped(s) == process

\* process.kill(): the child cannot ignore it.
Kill(s) == [process EXCEPT ![s] = "exited"]

\* Variant of StopReturn that leaves the flag as it is.
StopReturnKeeps(conn, s) == conn

\* stop(): `self.connected = False`.
StopReturn(conn, s) == [conn EXCEPT ![s] = FALSE]

\* The loop of shutdown() from position i on, up to the first stop() that
\* awaits: stop() on a handle without a process returns without suspending.
RECURSIVE StopFrom(_, _)
StopFrom(i, S) ==
  IF i > Len(servers) THEN [S EXCEPT !.idx = i, !.waiting = FALSE]
  ELSE IF process[servers[i]] = "none"
       THEN StopFrom(i + 1, [S EXCEPT !.connected = StopReturn(@, servers[i]),
                                      !.stopReturns[servers[i]] = @ + 1])
       ELSE [S EXCEPT !.idx = i, !.waiting = TRUE]

\* shutdown() runs on from position i with the given flags and counts: it
\* ends, or calls terminate() on the next child and awaits its exit.
ShutdownRun(i, conn, rets) ==
  LET S == StopFrom(i, [connected |-> conn, stopReturns |-> rets, idx |-> i, waiting |-> FALSE])
      s == servers[S.idx]
  IN  /\ connected' = S.connected
      /\ stopReturns' = S.stopReturns
      /\ shutdownIdx' = S.idx
      /\ shutdownPc' = IF S.waiting THEN "wait" ELSE "done"
      /\ terminated' = IF S.waiting THEN terminated \cup {s} ELSE terminated
      /\ termSent' = IF S.waiting THEN [termSent EXCEPT ![s] = @ \/ process[s] = "running"]
                     ELSE termSent

\* action_quit: the shutdown() task is started and runs to its first await.
\* Key bindings are served once on_mount has returned.
ActionQuit ==
  /\ shutdownPc \in {"idle", "done"}
  /\ shutdowns < MaxShutdowns
  /\ Mounted
  /\ LoopFree
  /\ shutdowns' = shutdowns + 1
  /\ ShutdownRun(1, connected, stopReturns)
  /\ UNCHANGED <<process, killed, tools, next_id, issued, sent, pending, stdout>>
  /\ UNCHANGED <<loadVars, callVars, turnVars, extractVars>>

\* stop(): process.wait() has returned within the timeout.
StopWaitDone ==
  /\ shutdownPc = "wait"
  /\ LoopFree
  /\ process[servers[shutdownIdx]] = "exited"
  /\ LET s == servers[shutdownIdx] IN
       ShutdownRun(shutdownIdx + 1, StopReturn(connected, s), [stopReturns EXCEPT ![s] = @ + 1])
  /\ UNCHANGED <<process, killed, shutdowns, tools, next_id, issued, sent, pending, stdout>>
  /\ UNCHANGED <<loadVars, callVars, turnVars, extractVars>>

\* stop(): the 5 s timeout has passed with the child still running.
StopTimeout ==
  /\ shutdownPc = "wait"
  /\ LoopFree
  /\ process[servers[shutdownIdx]] = "running"
  /\ LET s == servers[shutdownIdx] IN
       /\ process' = Kill(s)
       /\ killed' = killed \cup {s}
       /\ ShutdownRun(shutdownIdx + 1, StopReturn(connected, s), [stopReturns EXCEPT ![s] = @ + 1])
  /\ UNCHANGED <<shutdowns, tools, next_id, issued, sent, pending, stdout>>
  /\ UNCHANGED <<loadVars, callVars, turnVars, extractVars>>

ShutdownNext == ActionQuit \/ StopWaitDone \/ StopTimeout

(* ----------------------- send_message_to_gemini ------------------------ *)

\* What the body of one fenced block is: text json.loads rejects, JSON that is
\* no object, an object without a "tool" name, or an object naming a tool.
BlockKinds == {"badjson", "nonobj", "notool", "ping", "echo", "nope"}

ToolNames == {"ping", "echo", "nope"}

\* The model's possible answers: the sequence of fenced blocks in the text.
Responses(kinds) == UNION {[1..n -> kinds] : n \in 0..MaxBlocks}

NoContent == [text |-> "", id |-> 0]

\* response.text: the blocks as the model wrote them.
RawItems(blocks) ==
  [i \in 1..Len(blocks) |-> [sub |-> FALSE, blk |-> blocks[i], content |-> NoContent]]

\* Variant of RawText that yields the text of the response before.
RawTextStale(resp) == [rid |-> resp.rid - 1, items |-> RawItems(resp.blocks)]

RawText(resp) == [rid |-> resp.rid, items |-> RawItems(resp.blocks)]

\* str.replace(tool_call_block, replacement): every occurrence of the block's
\* text becomes the labelled result.
Substitute(items, blk, content) ==
  [i \in 1..Len(items) |->
     IF ~items[i].sub /\ items[i].blk = blk
     THEN [sub |-> TRUE, blk |-> blk, content |-> content]
     ELSE items[i]]

\* _extract_content_from_result: the text taken from a parsed response.
ExtractContent(result) ==
  [text |-> IF result.kind = "error" THEN "Error" ELSE result.payload, id |-> result.id]

\* Variant of HasResult that takes None for a result too.
HasResultAlways(result) == TRUE

\* `if result:` in the loop over the blocks.
HasResult(result) == result # None

\* `if not tool_calls:` after the scan of the response text.
NoToolCalls(blocks) == blocks = <<>>

\* Variant of LoopContinues with an off-by-one bound.
LoopContinuesInclusive(t) == iteration[t] <= max_iterations

\* `while iteration < max_iterations`.
LoopContinues(t) == iteration[t] < max_iterations

\* The follow-up message built from tool_results.
ResultsMessage(results) == [kind |-> "results", results |-> results]

Logged(R, i, e) == [R EXCEPT !.log = Append(@, [block |-> i, event |-> e])]

\* Variant of Record that replaces the block of a failed call too.
RecordSubstitutesFailure(R, i, name, result) ==
  IF HasResult(result)
  THEN [Logged(R, i, "success") EXCEPT
          !.items = Substitute(@, name, ExtractContent(result)),
          !.tool_results = Append(@, [tool |-> name, result |-> ExtractContent(result)])]
  ELSE [Logged(R, i, "failed") EXCEPT !.items = Substitute(@, name, NoContent)]

\* Variant of Record that puts the newest result first in tool_results.
RecordPrepend(R, i, name, result) ==
  IF HasResult(result)
  THEN [Logged(R, i, "success") EXCEPT
          !.items = Substitute(@, name, ExtractContent(result)),
          !.tool_results = <<[tool |-> name, result |-> ExtractContent(result)]>> \o @]
  ELSE Logged(R, i, "failed")

\* The body of the loop after call_tool has returned `result` for block i:
\* substitute and accumulate, or log the failure.
Record(R, i, name, result) ==
  IF HasResult(result)
  THEN [Logged(R, i, "success") EXCEPT
          !.items = Substitute(@, name, ExtractContent(result)),
          !.tool_results = Append(@, [tool |-> name, result |-> ExtractContent(result)])]
  ELSE Logged(R, i, "failed")

\* The for loop over tool_calls from block R.i on, up to the first request
\* that is written to a child (where the coroutine suspends) or to the end
\* of the blocks.  R carries the locals and the servers' fields it updates.
RECURSIVE RunBlocks(_, _)
RunBlocks(blocks, R) ==
  IF R.i > Len(blocks) THEN R
  ELSE LET b == blocks[R.i] IN
    IF b = "badjson" THEN RunBlocks(blocks, [Logged(R, R.i, "invalid_json") EXCEPT !.i = @ + 1])
    ELSE IF b = "nonobj" THEN RunBlocks(blocks, [Logged(R, R.i, "processing_error") EXCEPT !.i = @ + 1])
    ELSE IF b = "notool" THEN RunBlocks(blocks, [R EXCEPT !.i = @ + 1])
    ELSE LET s == Lookup(b)
             C == Logged(R, R.i, "calling")
         IN IF s = "none"
            THEN RunBlocks(blocks, [Record(C, R.i, b, None) EXCEPT !.i = @ + 1])
            ELSE LET D == [C EXCEPT !.next_id[s] = NextIdAfter(@),
                                    !.issued[s] = Append(@, R.next_id[s]),
                                    !.dispatched = @ + 1]
                     m == [id |-> R.next_id[s], method |-> "tools/call"]
                 IN IF WriteOk(s)
                    THEN [D EXCEPT !.sent[s] = Append(@, m),
                                   !.pending[s] = @ \cup {m},
                                   !.req = Request(s, m.id, "tools/call"),
                                   !.suspended = TRUE]
                    ELSE RunBlocks(blocks, [Record(D, R.i, b, None) EXCEPT !.i = @ + 1])

\* The locals of turn t and the servers' fields, as RunBlocks takes them.
RunState(t, i, results, items, log) ==
  [i |-> i, tool_results |-> results, items |-> items, log |-> log,
   next_id |-> next_id, issued |-> issued, sent |-> sent, pending |-> pending,
   dispatched |-> dispatched[t], req |-> NoReq, suspended |-> FALSE]

\* Turn t runs on from state R0 of the block loop of response resp, until it
\* suspends in _send_request, sends the follow-up message, or returns.
Continue(t, resp, R0) ==
  LET R == RunBlocks(resp.blocks, R0) IN
  /\ next_id' = R.next_id
  /\ issued' = R.issued
  /\ sent' = R.sent
  /\ pending' = R.pending
  /\ response' = [response EXCEPT ![t] = resp]
  /\ tool_results' = [tool_results EXCEPT ![t] = R.tool_results]
  /\ response_with_results' = [response_with_results EXCEPT ![t] = R.items]
  /\ iterLog' = [iterLog EXCEPT ![t] = R.log]
  /\ dispatched' = [dispatched EXCEPT ![t] = R.dispatched]
  /\ blockIdx' = [blockIdx EXCEPT ![t] = R.i]
  /\ req' = [req EXCEPT ![t] = R.req]
  /\ attempts' = [attempts EXCEPT ![t] = 0]
  /\ sleepQ' = IF R.suspended THEN Append(Woken(t), t) ELSE Woken(t)
  /\ UNCHANGED <<chat_session, startedOn>>
  /\ IF R.suspended
     THEN /\ pc' = [pc EXCEPT ![t] = "sleep"]
          /\ UNCHANGED <<iteration, current_message, outcome, modelCalls, productive, truncLogged, sentOn>>
     ELSE IF R.tool_results # <<>>
     THEN /\ current_message' = [current_message EXCEPT ![t] = ResultsMessage(R.tool_results)]
          /\ productive' = [productive EXCEPT ![t] = @ + 1]
          /\ IF LoopContinues(t)
             THEN /\ iteration' = [iteration EXCEPT ![t] = @ + 1]
                  /\ modelCalls' = [modelCalls EXCEPT ![t] = @ + 1]
                  /\ sentOn' = [sentOn EXCEPT ![t] = chat_session]
                  /\ pc' = [pc EXCEPT ![t] = "await_model"]
                  /\ UNCHANGED <<outcome, truncLogged>>
             ELSE /\ truncLogged' = [truncLogged EXCEPT ![t] = TRUE]
                  /\ outcome' = [outcome EXCEPT ![t] = [kind |-> "returned", text |-> RawText(resp)]]
                  /\ pc' = [pc EXCEPT ![t] = "done"]
                  /\ UNCHANGED <<iteration, modelCalls, sentOn>>
     ELSE /\ outcome' = [outcome EXCEPT ![t] =
                           [kind |-> "returned", text |-> [rid |-> resp.rid, items |-> R.items]]]
          /\ pc' = [pc EXCEPT ![t] = "done"]
          /\ UNCHANGED <<iteration, current_message, modelCalls, productive, truncLogged, sentOn>>

\* handle_send_message up to the first model call: the user's message is sent.
\* The turns are named in the order they are submitted.
TurnStart(t) ==
  /\ pc[t] = "idle"
  /\ t = "t2" => pc["t1"] # "idle"
  /\ Mounted
  /\ LoopFree
  /\ iteration' = [iteration EXCEPT ![t] = 1]
  /\ modelCalls' = [modelCalls EXCEPT ![t] = 1]
  /\ current_message' = [current_message EXCEPT ![t] = UserMessage]
  /\ startedOn' = [startedOn EXCEPT ![t] = chat_session]
  /\ sentOn' = [sentOn EXCEPT ![t] = chat_session]
  /\ pc' = [pc EXCEPT ![t] = "await_model"]
  /\ UNCHANGED <<response, blockIdx, tool_results, response_with_results, iterLog,
                 outcome, productive, dispatched, truncLogged, toolResponses, chat_session>>
  /\ UNCHANGED <<req, attempts, sleepQ, lastReply>>
  /\ UNCHANGED <<srvVars, loadVars>>
  /\ UNCHANGED <<stopVars, extractVars>>

\* Variant of FreshResults that keeps the results of the iteration before.
CarriedResults(t) == tool_results[t]

\* `tool_results = []` before the loop over the blocks of a response.
FreshResults(t) == <<>>

\* The model call returns `blocks`; the turn scans the text and runs the
\* block loop.  At most `budget` answers of a run carry blocks, and the
\* blocks are of the given kinds.
ModelReply(t, budget, kinds) ==
  /\ pc[t] = "await_model"
  /\ LoopFree
  /\ \E blocks \in Responses(kinds) :
       /\ blocks # <<>> => toolResponses < budget
       /\ toolResponses' = IF blocks # <<>> THEN toolResponses + 1 ELSE toolResponses
       /\ LET resp == [rid |-> iteration[t], blocks |-> blocks] IN
            IF NoToolCalls(blocks)
            THEN /\ response' = [response EXCEPT ![t] = resp]
                 /\ outcome' = [outcome EXCEPT ![t] = [kind |-> "returned", text |-> RawText(resp)]]
                 /\ pc' = [pc EXCEPT ![t] = "done"]
                 /\ UNCHANGED <<iteration, current_message, blockIdx, tool_results,
                                response_with_results, iterLog, modelCalls, productive,
                                dispatched, truncLogged, chat_session, startedOn, sentOn>>
                 /\ UNCHANGED <<next_id, issued, sent, pending, req, attempts, sleepQ>>
            ELSE Continue(t, resp, RunState(t, 1, FreshResults(t), RawItems(blocks), <<>>))
  /\ UNCHANGED <<process, termSent, connected, tools, stdout>>
  /\ UNCHANGED <<loadVars, lastReply>>
  /\ UNCHANGED <<stopVars, extractVars>>

\* Variant of ModelFails in which the turn returns an empty answer.
ModelFailsQuietly(t) ==
  /\ pc[t] = "await_model"
  /\ LoopFree
  /\ outcome' = [outcome EXCEPT ![t] = [kind |-> "returned", text |-> NoOutcome.text]]
  /\ pc' = [pc EXCEPT ![t] = "done"]
  /\ UNCHANGED <<iteration, current_message, response, blockIdx, tool_results,
                 response_with_results, iterLog, modelCalls, productive, dispatched,
                 truncLogged, toolResponses, chat_session, startedOn, sentOn>>
  /\ UNCHANGED <<req, attempts, sleepQ, lastReply>>
  /\ UNCHANGED <<srvVars, loadVars>>
  /\ UNCHANGED <<stopVars, extractVars>>

\* The model call raises: the turn re-raises to handle_send_message.
ModelFails(t) ==
  /\ pc[t] = "await_model"
  /\ LoopFree
  /\ outcome' = [outcome EXCEPT ![t] = [kind |-> "raised", text |-> NoOutcome.text]]
  /\ pc' = [pc EXCEPT ![t] = "done"]
  /\ UNCHANGED <<iteration, current_message, response, blockIdx, tool_results,
                 response_with_results, iterLog, modelCalls, productive, dispatched,
                 truncLogged, toolResponses, chat_session, startedOn, sentOn>>
  /\ UNCHANGED <<req, attempts, sleepQ, lastReply>>
  /\ UNCHANGED <<srvVars, loadVars>>
  /\ UNCHANGED <<stopVars, extractVars>>

\* The tools/call exchange of block blockIdx[t] ends: record the result, then
\* the block loop runs on.
ToolReply(t) ==
  /\ ReadDone(t)
  /\ LET result == Received(t)
         i == blockIdx[t]
         name == response[t].blocks[i]
         R0 == Record(RunState(t, i, tool_results[t], response_with_results[t], iterLog[t]),
                      i, name, result)
     IN  /\ lastReply' = [lastReply EXCEPT ![t] = [req |-> req[t], line |-> result]]
         /\ stdout' = StdoutAfterRead(t)
         /\ Continue(t, response[t], [R0 EXCEPT !.i = i + 1])
  /\ UNCHANGED <<process, termSent, connected, tools>>
  /\ UNCHANGED <<loadVars, toolResponses>>
  /\ UNCHANGED <<stopVars, extractVars>>

\* action_clear_chat: a fresh model session replaces chat_session.  (The
\* task it starts sends the tool summary to the fresh session.)
ActionClearChat ==
  /\ chat_session < MaxResets
  /\ Mounted
  /\ LoopFree
  /\ chat_session' = chat_session + 1
  /\ UNCHANGED <<iteration, current_message, response, blockIdx, tool_results,
                 response_with_results, iterLog, outcome, modelCalls, productive,
                 dispatched, truncLogged, toolResponses, startedOn, sentOn>>
  /\ UNCHANGED <<srvVars, loadVars, callVars, stopVars, extractVars>>

(* -------------------- _extract_content_from_result --------------------- *)

\* Parsed JSON values, by type.  A dict is its mapping from keys to values.
MaxContentItems == 2

PyStr(x) == [t |-> "str", v |-> x]

PyNum == [t |-> "num"]

PyList(items) == [t |-> "list", items |-> items]

PyDict(pairs) ==
  [t |-> "dict",
   m |-> [k \in {p[1] : p \in pairs} |-> (CHOOSE p \in pairs : p[1] = k)[2]]]

IsInstance(v, types) == v.t \in types

\* `key in d` for a dict d.
HasKey(d, key) == key \in DOMAIN d.m

\* Python strings the function builds, as sequences of pieces: a literal, a
\* line break, the JSON dump of a value, str() of a value that is no string,
\* or the text of an exception.
Lit(x) == <<[lit |-> x]>>

LineBreak == <<[nl |-> TRUE]>>

Dumps(v) == <<[dump |-> v]>>

\* str(v), as an f-string formats v.
StrOf(v) == IF IsInstance(v, {"str"}) THEN Lit(v.v) ELSE <<[str |-> v]>>

\* The ways a part of the function body ends: with a return, with an
\* exception, or by falling through to the statement after it.
Returned(s) == [kind |-> "return", value |-> s]

Raised(e) == [kind |-> "raise", exc |-> e]

FallsThrough == [kind |-> "fall"]

\* The loop over content_items: which items have their "text" appended.
AppendsText(item) ==
  IF ~IsInstance(item, {"dict"}) THEN FALSE
  ELSE IF HasKey(item, "type") /\ item.m["type"] = PyStr("text") /\ HasKey(item, "text")
       THEN TRUE
       ELSE HasKey(item, "text")

TextParts(content_items) ==
  LET kept == SelectSeq(content_items, AppendsText)
  IN  [i \in 1..Len(kept) |-> kept[i].m["text"]]

RECURSIVE JoinLines(_)
JoinLines(parts) ==
  IF parts = <<>> THEN <<>>
  ELSE IF Len(parts) = 1 THEN Lit(parts[1].v)
  ELSE Lit(parts[1].v) \o LineBreak \o JoinLines(Tail(parts))

\* "\n".join(text_parts): a TypeError if a part is no string.
Join(text_parts) ==
  IF \E i \in 1..Len(text_parts) : ~IsInstance(text_parts[i], {"str"})
  THEN Raised("TypeError")
  ELSE Returned(JoinLines(text_parts))

\* The content array format.
ContentArray(result_data) ==
  IF IsInstance(result_data, {"dict"}) /\ HasKey(result_data, "content")
  THEN LET content_items == result_data.m["content"] IN
       IF IsInstance(content_items, {"list"}) /\ Len(content_items.items) > 0
       THEN LET text_parts == TextParts(content_items.items) IN
            IF text_parts # <<>> THEN Join(text_parts) ELSE FallsThrough
       ELSE FallsThrough
  ELSE FallsThrough

TextKeys == <<"text", "message", "content", "output", "data">>

\* The loop over the common text fields from the k-th key on.
RECURSIVE CommonTextField(_, _)
CommonTextField(result_data, k) ==
  IF k > Len(TextKeys) THEN FallsThrough
  ELSE IF HasKey(result_data, TextKeys[k])
          /\ IsInstance(result_data.m[TextKeys[k]], {"str"})
       THEN Returned(Lit(result_data.m[TextKeys[k]].v))
       ELSE CommonTextField(result_data, k + 1)

\* The statements under `if "result" in result`.
SuccessfulResult(result_data) ==
  LET c == ContentArray(result_data) IN
  IF c.kind # "fall" THEN c
  ELSE IF IsInstance(result_data, {"str"}) THEN Returned(Lit(result_data.v))
  ELSE IF IsInstance(result_data, {"dict", "list"})
       THEN LET f == IF IsInstance(result_data, {"dict"})
                     THEN CommonTextField(result_data, 1) ELSE FallsThrough
            IN  IF f.kind # "fall" THEN f ELSE Returned(Dumps(result_data))
  ELSE FallsThrough

\* The statements under `if "error" in result`.
ErrorResult(error_info) ==
  IF IsInstance(error_info, {"dict"})
  THEN Returned(Lit("Error: ") \o
                StrOf(IF HasKey(error_info, "message") THEN error_info.m["message"]
                      ELSE error_info))
  ELSE Returned(Lit("Error: ") \o StrOf(error_info))

\* The body of the try statement.  `"result" in result` raises a TypeError
\* for a number and is false for a list that has no such item.
TryBody(result) ==
  IF IsInstance(result, {"num"}) THEN Raised("TypeError")
  ELSE IF IsInstance(result, {"list"}) THEN Returned(Dumps(result))
  ELSE LET r == IF HasKey(result, "result")
                THEN SuccessfulResult(result.m["result"]) ELSE FallsThrough
       IN  IF r.kind # "fall" THEN r
           ELSE LET e == IF HasKey(result, "error")
                         THEN ErrorResult(result.m["error"]) ELSE FallsThrough
                IN  IF e.kind # "fall" THEN e ELSE Returned(Dumps(result))

\* _extract_content_from_result: the outcome of the body, or the error text
\* the except clause returns.  (ExtractContent above is this function on the
\* lines the modelled children emit, with the text abbreviated.)
ExtractContentFromResult(result) ==
  LET b == TryBody(result) IN
  IF b.kind = "raise"
  THEN Returned(Lit("Error extracting content: ") \o <<[exc |-> b.exc]>>)
  ELSE b

\* The raw responses extraction is run on.  Content items: text items with
\* and without a type, an item whose "text" is a number, an item without
\* text, and an item that is no dict.
ContentItems ==
  {PyDict({<<"type", PyStr("text")>>, <<"text", PyStr("a")>>}),
   PyDict({<<"text", PyStr("b")>>}),
   PyDict({<<"type", PyStr("text")>>, <<"text", PyNum>>}),
   PyDict({<<"type", PyStr("image")>>}),
   PyNum}

ContentValues ==
  {PyStr("c"), PyNum}
    \cup {PyList(items) : items \in UNION {[1..n -> ContentItems] : n \in 0..MaxContentItems}}

\* A key that is absent, or present with one of the values.
Optional(key, values) == {{}} \cup {{<<key, v>>} : v \in values}

ResultValues ==
  {PyStr("r"), PyNum, PyList(<<PyNum>>)}
    \cup {PyDict(c \cup x \cup m \cup o \cup d) :
            c \in Optional("content", ContentValues),
            x \in Optional("text", {PyNum}),
            m \in Optional("message", {PyStr("m"), PyNum}),
            o \in Optional("output", {PyStr("o")}),
            d \in Optional("data", {PyStr("d")})}

ErrorValues ==
  {PyStr("e"),
   PyDict({<<"code", PyNum>>, <<"message", PyStr("msg")>>}),
   PyDict({<<"code", PyNum>>, <<"message", PyNum>>}),
   PyDict({<<"code", PyNum>>})}

RawResponses ==
  {PyNum, PyList(<<PyNum>>)}
    \cup {PyDict(r \cup e) : r \in Optional("result", ResultValues),
                            e \in Optional("error", ErrorValues)}

\* One call of _extract_content_from_result on raw_result.
Extract ==
  /\ raw_result # NoRaw
  /\ extracted = <<>>
  /\ extracted' = <<ExtractContentFromResult(raw_result)>>
  /\ UNCHANGED raw_result
  /\ UNCHANGED <<srvVars, loadVars, callVars, turnVars, stopVars>>

(* ---------------------------- specifications --------------------------- *)

Environment == \E s \in Servers : ServerRespond(s) \/ ServerExit(s)

Polling == \E c \in Callers : PollBlock(c) \/ ReadRetry(c)

TurnNext(t, budget, kinds) ==
  TurnStart(t) \/ ModelReply(t, budget, kinds) \/ ModelFails(t) \/ ToolReply(t)

\* The client from construction: the loader, then one user turn.
Next ==
  \/ LoaderNext
  \/ Polling
  \/ Environment
  \/ TurnNext("t1", MaxToolResponses, BlockKinds)

Spec == Init /\ [][Next]_vars

\* The state load_servers leaves when every configured server resolves its
\* environment, spawns, and answers both handshake requests well: a state
\* Spec reaches, and the one the turn specifications below start from.
\* `raws` are the raw responses result extraction may be given.
LoadedWith(raws) ==
  /\ env = [s \in Servers |-> <<>>]
  /\ environ = NoEnviron
  /\ self_env = [s \in Servers |-> [set |-> TRUE, env |-> <<>>]]
  /\ servers = Config
  /\ process = [s \in Servers |-> "running"]
  /\ termSent = [s \in Servers |-> FALSE]
  /\ connected = [s \in Servers |-> TRUE]
  /\ tools = ServerTools
  /\ next_id = [s \in Servers |-> 3]
  /\ issued = [s \in Servers |-> <<1, 2>>]
  /\ sent = [s \in Servers |-> <<[id |-> 1, method |-> "initialize"],
                                 [id |-> 0, method |-> "notifications/initialized"],
                                 [id |-> 2, method |-> "tools/list"]>>]
  /\ pending = [s \in Servers |-> {}]
  /\ stdout = [s \in Servers |-> <<>>]
  /\ loadIdx = Len(Config) + 1
  /\ startResult = [s \in Servers |-> "ok"]
  /\ initResponse = [s \in Servers |-> [kind |-> "result", id |-> 1, payload |-> "caps"]]
  /\ listResponse = [s \in Servers |-> [kind |-> "result", id |-> 2, payload |-> "tools"]]
  /\ pc = [c \in Callers |-> IF c = Loader THEN "done" ELSE "idle"]
  /\ req = [c \in Callers |-> NoReq]
  /\ attempts = [c \in Callers |-> 0]
  /\ sleepQ = <<>>
  /\ lastReply = [c \in Callers |->
                    IF c = Loader
                    THEN [req |-> Request(Config[Len(Config)], 2, "tools/list"),
                          line |-> [kind |-> "result", id |-> 2, payload |-> "tools"]]
                    ELSE NoReply]
  /\ iteration = [t \in Turns |-> 0]
  /\ current_message = [t \in Turns |-> UserMessage]
  /\ response = [t \in Turns |-> NoResponse]
  /\ blockIdx = [t \in Turns |-> 0]
  /\ tool_results = [t \in Turns |-> <<>>]
  /\ response_with_results = [t \in Turns |-> <<>>]
  /\ iterLog = [t \in Turns |-> <<>>]
  /\ outcome = [t \in Turns |-> NoOutcome]
  /\ modelCalls = [t \in Turns |-> 0]
  /\ productive = [t \in Turns |-> 0]
  /\ dispatched = [t \in Turns |-> 0]
  /\ truncLogged = [t \in Turns |-> FALSE]
  /\ toolResponses = 0
  /\ chat_session = 0
  /\ startedOn = [t \in Turns |-> 0]
  /\ sentOn = [t \in Turns |-> 0]
  /\ shutdownPc = "idle"
  /\ shutdownIdx = 0
  /\ shutdowns = 0
  /\ terminated = {}
  /\ killed = {}
  /\ stopReturns = [s \in Servers |-> 0]
  /\ raw_result \in raws
  /\ extracted = <<>>

Loaded == LoadedWith({NoRaw})

\* Two user turns submitted one after the other, running concurrently
\* (action_send_message starts each as its own task); the model's blocks are
\* well-formed calls, of a known and of an unknown tool.  The first server
\* owns every tool of the loaded registry, so the second one gets no request
\* and its events are left out.
ConcKinds == {"echo", "nope"}

NextConc ==
  \/ Polling
  \/ ServerRespond(Config[1]) \/ ServerExit(Config[1])
  \/ \E t \in Turns : TurnNext(t, MaxToolResponses, ConcKinds)

SpecConc == Loaded /\ [][NextConc]_vars

\* One user turn, with a model free to answer with blocks at every call and
\* children that may also answer with JSON that is no response object.
\* In the loaded state "ping" and "echo" both resolve to the first server,
\* and "nonobj" differs from "badjson" only in the text of the log event.
CapKinds == {"badjson", "notool", "echo", "nope"}

NextCap ==
  \/ Polling
  \/ Environment
  \/ \E s \in Servers : ServerRespondNonObject(s)
  \/ TurnNext("t1", max_iterations + 1, CapKinds)

SpecCap == Loaded /\ [][NextCap]_vars

\* The client from construction, with one user turn whose blocks call a
\* listed tool, and the application quitting at any moment after on_mount.
QuitKinds == {"echo"}

NextQuit ==
  \/ LoaderNext
  \/ Polling
  \/ Environment
  \/ TurnNext("t1", MaxToolResponses, QuitKinds)
  \/ ShutdownNext

SpecQuit == Init /\ [][NextQuit]_vars

\* One user turn on the loaded client, and the conversation reset at any
\* moment.
NextReset ==
  \/ Polling
  \/ ServerRespond(Config[1]) \/ ServerExit(Config[1])
  \/ TurnNext("t1", MaxToolResponses, ConcKinds)
  \/ ActionClearChat

SpecReset == Loaded /\ [][NextReset]_vars

\* Construction and spawn of the servers, for every "env" mapping of the
\* first server within the bounds and every environment.
InitEnv ==
  InitWith(EnvTemplates, Environs) /\ env[Config[2]] \in BasicTemplates

SpecEnv == InitEnv /\ [][LoadServer]_vars

\* One user turn on the loaded client with a first server that may stay
\* silent: the event loop runs every coroutine that is ready (a timer that
\* has fired, a readline() that can return, a model call that has ended),
\* while nothing obliges the child to answer or to exit.
LiveKinds == {"echo"}

ClientStep == Polling \/ TurnNext("t1", MaxToolResponses, LiveKinds)

NextLive ==
  \/ Polling
  \/ ServerRespond(Config[1]) \/ ServerExit(Config[1])
  \/ TurnNext("t1", MaxToolResponses, LiveKinds)

SpecLive == Loaded /\ [][NextLive]_vars /\ WF_vars(ClientStep)

\* Result extraction alone, on every raw response of RawResponses.
SpecExtract == LoadedWith(RawResponses) /\ [][Extract]_vars

(* -------------------------------- claims ------------------------------ *)

\* The callers that have written a request to server s and are still in the
\* polling loop for its response.
InFlight(s) == {c \in Callers : pc[c] \in {"sleep", "reading"} /\ req[c].srv = s}

\* C1: at every moment, each server has at most one request written to its
\* input stream whose response has not been read and whose wait has not ended.
SingleInFlight == \A s \in Servers : Cardinality(InFlight(s)) <= 1

\* C2: every response handed to the issuer of a request carries that
\* request's id.
Correlated ==
  \A c \in Callers : lastReply[c].line # None => lastReply[c].line.id = lastReply[c].req.id

\* C3: the ids assigned on a server handle are 1, 2, 3, ... in the order they
\* are assigned: strictly increasing from 1, none assigned twice.
IdsSequential ==
  \A s \in Servers :
    /\ \A i \in 1..Len(issued[s]) : issued[s][i] = i
    /\ next_id[s] = Len(issued[s]) + 1

\* C3 witness: two concurrent turns have each been assigned an id on the same
\* server, after a call of that server had failed.
IdsSequentialWitness ==
  /\ Cardinality(InFlight("s1")) = 2
  /\ Len(issued["s1"]) >= 5
  /\ \E c \in Turns : lastReply[c].req.srv = "s1" /\ lastReply[c].line = None

\* The tools/list response is a result carrying a tool array whose entries
\* all have their required fields.
WellFormedList(resp) == resp.kind = "result" /\ resp.payload = "tools"

\* C4 as stated: connected implies that initialize was answered without an
\* error field and that tools/list was answered with a well-formed result.
ConnectedImpliesListed ==
  \A s \in Servers :
    connected[s] =>
      /\ initResponse[s].kind = "result" /\ initResponse[s].id = 1
      /\ WellFormedList(listResponse[s])

\* C4 amended: connected implies that initialize was answered without an
\* error field and that the tools/list exchange has been issued and has
\* ended, with or without a well-formed result.
ConnectedImpliesHandshake ==
  \A s \in Servers :
    connected[s] =>
      /\ initResponse[s].kind = "result" /\ initResponse[s].id = 1
      /\ Len(issued[s]) >= 2
      /\ ~(req[Loader].srv = s /\ req[Loader].method = "tools/list")
      /\ startResult[s] = "ok"

\* C4 witness: a server is connected although its tools/list exchange gave
\* no well-formed result.
ConnectedWithoutList ==
  \E s \in Servers : connected[s] /\ ~WellFormedList(listResponse[s])

\* The items of a response text with every block as the model wrote it.
Unsubstituted(resp) ==
  [rid |-> resp.rid,
   items |-> [i \in 1..Len(resp.blocks) |->
                [sub |-> FALSE, blk |-> resp.blocks[i], content |-> NoContent]]]

\* C5: a turn makes at most 10 model calls; a turn all of whose model
\* responses yielded a tool result makes exactly 10, returns the raw text of
\* the 10th response and logs the truncation event.
IterationCap ==
  \A t \in Turns :
    /\ modelCalls[t] <= 10
    /\ pc[t] = "await_model" => iteration[t] = modelCalls[t]
    /\ (modelCalls[t] > 0 /\ productive[t] = modelCalls[t]) =>
         /\ modelCalls[t] = 10
         /\ pc[t] = "done"
         /\ response[t].rid = 10
         /\ outcome[t] = [kind |-> "returned", text |-> Unsubstituted(response[t])]
         /\ truncLogged[t]
    /\ truncLogged[t] => productive[t] = 10

\* C5 witness: a turn has ended at the cap.
IterationCapWitness == pc["t1"] = "done" /\ truncLogged["t1"] /\ dispatched["t1"] >= 10

\* C6: when the first k responses each yielded a tool result and response
\* k+1 has no block, the turn ends there: k+1 model calls, the text of
\* response k+1 returned unchanged, and with k = 0 no tool invoked.
PlainAnswerEnds ==
  \A t \in Turns :
    (response[t].rid > 0 /\ response[t].blocks = <<>>) =>
      /\ pc[t] = "done"
      /\ productive[t] = response[t].rid - 1
      /\ modelCalls[t] = productive[t] + 1
      /\ outcome[t] = [kind |-> "returned", text |-> Unsubstituted(response[t])]
      /\ response[t].rid = 1 => dispatched[t] = 0

\* C6 witness: a turn has ended on a plain third answer after two rounds of
\* tool results.
PlainAnswerWitness ==
  /\ pc["t1"] = "done"
  /\ response["t1"].blocks = <<>>
  /\ productive["t1"] = 2
  /\ modelCalls["t1"] = 3

\* The last response of turn t is one well-formed block naming a tool that
\* no connected server lists.
UnknownOnly(t) ==
  /\ Len(response[t].blocks) = 1
  /\ response[t].blocks[1] \in ToolNames
  /\ Lookup(response[t].blocks[1]) = "none"

\* C7 as stated: such a turn ends within the cap without raising, and an
\* error result for that tool is in the recorded results or in the answer.
UnknownToolErrorResult ==
  \A t \in Turns :
    UnknownOnly(t) =>
      /\ pc[t] = "done" /\ outcome[t].kind = "returned" /\ modelCalls[t] <= 10
      /\ \/ \E i \in 1..Len(tool_results[t]) :
              tool_results[t][i].tool = response[t].blocks[1]
         \/ \E i \in 1..Len(outcome[t].text.items) :
              outcome[t].text.items[i].sub

\* C7 amended: such a turn ends in that iteration without raising, the
\* failure of that tool is logged as an error event, nothing is recorded for
\* it, and the answer is the response text unchanged.
UnknownToolLogged ==
  \A t \in Turns :
    UnknownOnly(t) =>
      /\ pc[t] = "done" /\ outcome[t].kind = "returned"
      /\ modelCalls[t] = response[t].rid /\ modelCalls[t] <= 10
      /\ iterLog[t] = <<[block |-> 1, event |-> "calling"], [block |-> 1, event |-> "failed"]>>
      /\ tool_results[t] = <<>>
      /\ outcome[t].text = Unsubstituted(response[t])

\* C7 witness: a turn has ended on a call of a tool that the connected
\* server does not list.
UnknownToolWitness ==
  /\ UnknownOnly("t1")
  /\ pc["t1"] = "done"
  /\ \E s \in Servers : connected[s] /\ tools[s] # <<>>

\* A block that fails to parse, or that names a tool no connected server lists.
FailingBlock(b) ==
  b \in {"badjson", "nonobj"} \/ (b \in ToolNames /\ Lookup(b) = "none")

AllBlocksFail(t) ==
  /\ response[t].blocks # <<>>
  /\ \A i \in 1..Len(response[t].blocks) : FailingBlock(response[t].blocks[i])

FailureEvents == {"invalid_json", "processing_error", "failed"}

EnvFailureIsolated ==
  Mounted =>
    \A s \in Servers :
      /\ ResolveEnvRaises(s) => ~connected[s]
      /\ ~ResolveEnvRaises(s) => startResult[s] # "none"

\* C10: a server whose start failed (spawn failure, exit during the grace
\* period, failed handshake) stays in the server map with connected = false,
\* and load_servers goes on to the servers after it.
StartFailureIsolated ==
  \A i \in 1..Len(Config) :
    startResult[Config[i]] = "failed" =>
      /\ \E j \in 1..Len(servers) : servers[j] = Config[i]
      /\ ~connected[Config[i]]
      /\ loadIdx > i
      /\ pc[Loader] = "aborted" => (loadIdx <= Len(Config) /\ ResolveEnvRaises(Config[loadIdx]))
      /\ pc[Loader] = "done" => \A s \in Servers : startResult[s] # "none"

\* C10 witness: the first server's handshake failed after its child had been
\* spawned, and the second server was started and connected.
StartFailureWitness ==
  /\ startResult["s1"] = "failed"
  /\ process["s1"] # "none"
  /\ initResponse["s1"].kind = "error"
  /\ startResult["s2"] = "ok"
  /\ connected["s2"]

\* Turn t's tools/call has just ended without a usable response: no line
\* within the polling bound, or a line that is not JSON.
CallFailsNow(t) ==
  /\ ReadDone(t)
  /\ req[t].method = "tools/call"
  /\ Received(t) = None
  /\ iterLog'[t] # iterLog[t]

\* Block i of turn t's response names a tool the registry resolves to s.
NextBlockOn(t, i, s) ==
  /\ i <= Len(response[t].blocks)
  /\ response[t].blocks[i] \in ToolNames
  /\ Lookup(response[t].blocks[i]) = s

\* C11: a tools/call that fails at call time (no line, a line that is not
\* JSON, a failed write) leaves every server's connected flag and tool list
\* as they were, and a later tools/call of the same turn to that server is
\* dispatched with the next request id.
CallFailureIsolated ==
  [][\A t \in Turns :
       /\ (iterLog'[t] # iterLog[t] \/ dispatched'[t] # dispatched[t]) =>
            (connected' = connected /\ tools' = tools)
       /\ CallFailsNow(t) =>
         /\ connected' = connected
         /\ tools' = tools
         /\ NextBlockOn(t, blockIdx[t] + 1, req[t].srv) =>
              /\ dispatched'[t] > dispatched[t]
              /\ Len(issued'[req[t].srv]) > Len(issued[req[t].srv])
              /\ issued'[req[t].srv][Len(issued[req[t].srv]) + 1] = req[t].id + 1]_vars

\* C11 witness: after a call to the first server ended without a response,
\* the same turn has a call with the next id in flight on that server, which
\* is still connected with its tools.
CallFailureWitness ==
  /\ lastReply["t1"].req.srv = "s1"
  /\ lastReply["t1"].line = None
  /\ pc["t1"] \in {"sleep", "reading"}
  /\ req["t1"] = Request("s1", lastReply["t1"].req.id + 1, "tools/call")
  /\ blockIdx["t1"] = 2
  /\ connected["s1"] /\ tools["s1"] = ServerTools["s1"]

\* C12: once shutdown() has completed, every child that was spawned has had
\* terminate() called on it by stop() and is no longer running (it exited,
\* or was killed when the stop timeout passed).
ShutdownStopsAll ==
  shutdownPc = "done" =>
    \A s \in Servers :
      process[s] # "none" => (s \in terminated /\ process[s] # "running")

\* C12 witness: shutdown has completed after killing the child of a server
\* whose handshake had failed, and after stopping a connected server.
ShutdownWitness ==
  /\ shutdownPc = "done"
  /\ startResult["s1"] = "failed" /\ initResponse["s1"].kind = "error"
  /\ "s1" \in killed
  /\ startResult["s2"] = "ok" /\ stopReturns["s2"] = 1

\* C13: a turn sends its messages only to the model session its user message
\* went to: after a reset nothing of the turn reaches the fresh session.
NoStaleSend == \A t \in Turns : sentOn[t] = startedOn[t]

\* C14: every return of stop() leaves connected = false on that server, and
\* a shutdown() that runs after an earlier one (a second stop() on every
\* handle) changes nothing of the servers' state.
StopIdempotent ==
  [][/\ \A s \in Servers : stopReturns'[s] > stopReturns[s] => ~connected'[s]
     /\ (shutdowns' >= 2 /\ stopVars' # stopVars) =>
          (UNCHANGED <<srvVars, servers, terminated, killed>>
             /\ \A s \in Servers : ~connected[s])]_vars

\* C14 witness: stop() has returned twice on a handle whose spawn had failed
\* and twice on a handle that was connected.
StopTwiceWitness ==
  /\ startResult["s1"] = "failed" /\ process["s1"] = "none" /\ stopReturns["s1"] = 2
  /\ startResult["s2"] = "ok" /\ "s2" \in terminated /\ stopReturns["s2"] = 2
  /\ shutdownPc = "done"

\* No connected server lists `name`.
NotListed(name) == \A s \in Servers : connected[s] => name \notin Range(tools[s])

\* What a block naming `name` does in the current state.
Invoke(name) == RunBlocks(<<name>>, RunState("t1", 1, <<>>, RawItems(<<name>>), <<>>))

\* C15: in every state, invoking a name that no connected server lists gives
\* none (the call is logged as failed, nothing is recorded) and writes no
\* request and assigns no id on any server.
UnlistedNameWritesNothing ==
  \A name \in ToolNames :
    NotListed(name) =>
      /\ Lookup(name) = "none"
      /\ ~Invoke(name).suspended
      /\ Invoke(name).sent = sent /\ Invoke(name).pending = pending
      /\ Invoke(name).next_id = next_id
      /\ Invoke(name).tool_results = <<>>
      /\ Invoke(name).log = <<[block |-> 1, event |-> "calling"], [block |-> 1, event |-> "failed"]>>

\* C15 witness: a turn has invoked "echo" when the only servers listing it
\* had been stopped, and no request was written for it.
UnlistedNameWitness ==
  /\ pc["t1"] = "done" /\ response["t1"].blocks = <<"echo">>
  /\ dispatched["t1"] = 0
  /\ \E s \in Servers : ~connected[s] /\ tools[s] = ServerTools[s] /\ stopReturns[s] > 0
  /\ NotListed("echo")

\* A tools/call request is appended to the input of server s in this step.
CallWritten(s) ==
  /\ Len(sent'[s]) > Len(sent[s])
  /\ sent'[s][Len(sent'[s])].method = "tools/call"

\* C16: a server with connected = false has none of its tools in the
\* aggregated list or in the summary, and a tools/call is written only to a
\* server that is connected, whose handshake has completed, and on which
\* stop() has not returned.
DisconnectedContributesNothing ==
  /\ [](/\ \A i \in 1..Len(GetAllTools) : connected[GetAllTools[i].server_name]
        /\ \A i \in 1..Len(GetToolsSummary.lines) :
             \E s \in Servers : connected[s] /\ GetToolsSummary.lines[i] \in Range(tools[s])
        /\ (\A s \in Servers : ~connected[s]) => GetToolsSummary.empty)
  /\ [][\A s \in Servers :
          CallWritten(s) => (connected[s] /\ startResult[s] = "ok" /\ stopReturns[s] = 0)]_vars

\* C16 witness: the first server has been stopped and keeps its tool list;
\* the registry shows the second server's tool only, and a call of "echo" has
\* been written to the second server.
DisconnectedWitness ==
  /\ ~connected["s1"] /\ stopReturns["s1"] = 1 /\ tools["s1"] = ServerTools["s1"]
  /\ connected["s2"]
  /\ GetAllTools = <<[name |-> "echo", server_name |-> "s2"]>>
  /\ req["t1"].srv = "s2" /\ req["t1"].method = "tools/call"

\* The entries of the aggregated list that are attributed to server s.
RegistryOf(s) ==
  LET Of(e) == e.server_name = s IN SelectSeq(GetAllTools, Of)

\* C17: when a server's tools/list result lists N descriptors, the
\* aggregated list has exactly those N for that server after discovery, in
\* the order listed, each attributed to that server.
ListedToolsRegistered ==
  \A s \in Servers :
    (connected[s] /\ WellFormedList(listResponse[s])) =>
      RegistryOf(s) = [i \in 1..Len(ServerTools[s]) |->
                         [name |-> ServerTools[s][i], server_name |-> s]]

\* C17 witness: both servers have been discovered, with two tools and with
\* one tool; the aggregated list has the three descriptors.
ListedToolsWitness ==
  /\ \A s \in Servers : connected[s] /\ WellFormedList(listResponse[s])
  /\ GetAllTools = <<[name |-> "ping", server_name |-> "s1"],
                     [name |-> "echo", server_name |-> "s1"],
                     [name |-> "echo", server_name |-> "s2"]>>

\* C18: a turn whose last model call gave no response ends with the failure
\* raised to its caller, and the step in which a model call fails leaves
\* every server's connected flag and tool list, the server map and the
\* aggregated list as they were.
ModelFailureFrame ==
  /\ [](\A t \in Turns :
          /\ (pc[t] = "done" /\ response[t].rid < modelCalls[t]) => outcome[t].kind = "raised"
          /\ outcome[t].kind = "raised" => pc[t] = "done")
  /\ [][\A t \in Turns :
          (outcome'[t].kind = "raised" /\ outcome[t].kind # "raised") =>
            /\ UNCHANGED <<connected, tools, servers, process, next_id, sent>>
            /\ GetAllTools' = GetAllTools]_vars

\* C18 witness: the first turn failed at its second model call, after a tool
\* result; the second turn has run a tool and returned an answer.
ModelFailureWitness ==
  /\ outcome["t1"].kind = "raised" /\ modelCalls["t1"] = 2
  /\ outcome["t2"].kind = "returned" /\ productive["t2"] = 1
  /\ \A s \in Servers : connected[s]

\* The references of server s's "env" mapping to variables that are absent:
\* <<entry, piece>> positions.
MissingRefs(s) ==
  {ij \in {<<i, j>> : i \in 1..MaxEnvEntries + 1, j \in 1..MaxEnvTokens + 1} :
     /\ ij[1] <= Len(env[s]) /\ ij[2] <= Len(env[s][ij[1]])
     /\ env[s][ij[1]][ij[2]].ref
     /\ environ[env[s][ij[1]][ij[2]].text] = Unset}

\* The first of them in order of appearance.
FirstMissing(s) ==
  CHOOSE ij \in MissingRefs(s) :
    \A kl \in MissingRefs(s) : ij[1] < kl[1] \/ (ij[1] = kl[1] /\ ij[2] <= kl[2])

\* The mapping with every reference replaced by the variable's ambient value.
Substituted(s) ==
  [i \in 1..Len(env[s]) |->
     [j \in 1..Len(env[s][i]) |->
        IF env[s][i][j].ref THEN environ[env[s][i][j].text] ELSE env[s][i][j].text]]

\* C19: resolution gives the mapping with every reference replaced by its
\* ambient value, or fails naming the first absent variable and the server;
\* a handle has an env, and a child is spawned, only from a fully resolved
\* mapping.
EnvResolvedOrFails ==
  \A s \in Servers :
    /\ IF MissingRefs(s) = {}
       THEN /\ ResolveEnvVariables(s).kind = "ok"
            /\ ResolveEnvVariables(s).env = Substituted(s)
       ELSE /\ ResolveEnvVariables(s).kind = "error"
            /\ ResolveEnvVariables(s).server = s
            /\ ResolveEnvVariables(s).name =
                 env[s][FirstMissing(s)[1]][FirstMissing(s)[2]].text
    /\ (self_env[s].set \/ process[s] # "none") =>
         (MissingRefs(s) = {} /\ self_env[s] = [set |-> TRUE, env |-> Substituted(s)])

\* C19 witness: construction of the first server failed on ${B} in its
\* second entry, after a first entry ${A} with A set to the empty string.
EnvFailureWitness ==
  /\ pc[Loader] = "aborted"
  /\ Len(env["s1"]) = 2
  /\ env["s1"][1] = <<[ref |-> TRUE, text |-> "A"]>>
  /\ environ["A"] = "" /\ environ["B"] = Unset
  /\ FirstMissing("s1") = <<2, 1>>
  /\ ResolveEnvVariables("s1").name = "B"
  /\ ~self_env["s1"].set

\* The blocks of turn t's last response that named a listed tool, and so
\* were invoked on a server.
InvokedBlocks(t) ==
  {i \in 1..Len(response[t].blocks) :
     response[t].blocks[i] \in ToolNames /\ Lookup(response[t].blocks[i]) # "none"}

\* C20: when the loop over a response's blocks has ended, tool_results holds
\* one record for every block that was resolved and invoked.
EveryInvocationRecorded ==
  \A t \in Turns :
    (pc[t] \in {"done", "await_model"} /\ response[t].blocks # <<>>) =>
      Len(tool_results[t]) = Cardinality(InvokedBlocks(t))

\* C21: when the tools/list exchange gave no well-formed result, the server
\* is connected with an empty tool list and an anomaly message was logged.
MalformedListZeroTools ==
  \A s \in Servers :
    (startResult[s] = "ok" /\ ~WellFormedList(listResponse[s])) =>
      /\ connected[s]
      /\ tools[s] = <<>>
      /\ ListAnomalyLogged(listResponse[s])

\* Caller c is in the polling loop of the request with id i.
Waiting(c, i) == pc[c] \in {"sleep", "reading"} /\ req[c].id = i

\* C22: every request that has been written completes: its wait ends, with
\* a response or with a failure, whether or not the server ever emits a line.
EveryRequestCompletes ==
  \A c \in Turns : \A i \in 1..(2 + MaxToolResponses * MaxBlocks) :
    Waiting(c, i) ~> ~Waiting(c, i)

\* The initialize response is absent, unparsable, or carries an error field.
InitFailedAsSpecified(resp) == resp.kind \in {"none", "error"}

\* The messages of the handshake, in the order _initialize writes them.
HandshakeMessages ==
  <<[id |-> 1, method |-> "initialize"],
    [id |-> 0, method |-> "notifications/initialized"],
    [id |-> 2, method |-> "tools/list"]>>

\* C23: what has been written to a server is the handshake in its order
\* (initialize with id 1, the notification, tools/list with id 2), then
\* tools/call requests only; the notification and tools/list are written
\* only once an initialize response without an error field has been read;
\* connected is set only once the tools/list exchange has ended; a failed
\* initialize exchange leaves initialize the only message ever written.
HandshakeOrder ==
  \A s \in Servers :
    /\ \A i \in 1..Len(sent[s]) :
         IF i <= 3 THEN sent[s][i] = HandshakeMessages[i]
         ELSE sent[s][i].method = "tools/call"
    /\ Len(sent[s]) # 2
    /\ Len(sent[s]) >= 2 => (initResponse[s].kind = "result" /\ initResponse[s].id = 1)
    /\ connected[s] =>
         /\ ~(req[Loader].srv = s /\ pc[Loader] \in {"sleep", "reading"})
         /\ initResponse[s].kind = "result"
         /\ Len(issued[s]) >= 2
    /\ (startResult[s] = "failed" /\ Len(sent[s]) >= 1) =>
         (InitFailedAsSpecified(initResponse[s]) /\ Len(sent[s]) = 1 /\ ~connected[s])
    /\ Len(sent[s]) > 3 => startResult[s] = "ok"

\* C23 witness: one server's handshake has been written in full and the
\* server is connected; the other's initialize was answered with an error
\* and nothing more was written to it.
HandshakeWitness ==
  /\ sent["s1"] = <<[id |-> 1, method |-> "initialize"]>>
  /\ initResponse["s1"].kind = "error" /\ startResult["s1"] = "failed"
  /\ Len(sent["s2"]) >= 3 /\ connected["s2"]
  /\ SubSeq(sent["s2"], 1, 3) = HandshakeMessages

\* C24: within one model turn the blocks are invoked one after another in
\* the order of the response text.  While the request of block i is in
\* flight, every earlier block that was invoked has its outcome logged and no
\* later block has been touched; the accumulated {tool, result} pairs are the
\* successful blocks in block order; and the follow-up message is that list.
Events(t, kinds) == SelectSeq(iterLog[t], LAMBDA e : e.event \in kinds)

Completed(t, j) ==
  \E k \in 1..Len(iterLog[t]) :
    iterLog[t][k].block = j /\ iterLog[t][k].event \in {"success", "failed"}

InBlockOrder(t) ==
  LET ok == Events(t, {"success"}) IN
  /\ Len(tool_results[t]) = Len(ok)
  /\ \A k \in 1..Len(ok) :
       /\ tool_results[t][k].tool = response[t].blocks[ok[k].block]
       /\ \A l \in 1..Len(ok) : k < l => ok[k].block < ok[l].block

BlocksInOrder ==
  \A t \in Turns :
    /\ pc[t] \in {"sleep", "reading"} =>
         /\ req[t] # NoReq
         /\ iterLog[t] # <<>>
         /\ iterLog[t][Len(iterLog[t])] = [block |-> blockIdx[t], event |-> "calling"]
         /\ \A k \in 1..Len(iterLog[t]) : iterLog[t][k].block <= blockIdx[t]
         /\ \A k \in 1..(Len(iterLog[t]) - 1) :
              iterLog[t][k].event = "calling" => Completed(t, iterLog[t][k].block)
         /\ Len(SelectSeq(sent[req[t].srv],
                          LAMBDA m : m.method = "tools/call" /\ m.id = req[t].id)) = 1
    /\ pc[t] # "idle" /\ ~NoToolCalls(response[t].blocks) => InBlockOrder(t)
    /\ pc[t] = "await_model" /\ current_message[t] # UserMessage =>
         /\ current_message[t] = ResultsMessage(tool_results[t])
         /\ tool_results[t] # <<>>

\* C24 witness: a response with two blocks naming different tools, both
\* invoked with success, their results sent on in the order of the blocks.
BlocksInOrderWitness ==
  /\ pc["t1"] = "await_model"
  /\ response["t1"] # NoResponse
  /\ response["t1"].blocks = <<"ping", "echo">>
  /\ Len(tool_results["t1"]) = 2
  /\ tool_results["t1"][1].tool = "ping"
  /\ tool_results["t1"][2].tool = "echo"
  /\ current_message["t1"] = ResultsMessage(tool_results["t1"])

\* C26: an invocation of a tool name is written to the first registered
\* server, in the order of the server map, that is connected and lists the
\* name; no server registered before it is a connected owner of the name,
\* and the step writes to no other server.
Exposes(s, name) == connected[s] /\ \E k \in 1..Len(tools[s]) : tools[s][k] = name

FirstOwnerDispatch ==
  [][\A s \in Servers :
       CallWritten(s) =>
         LET name == response'["t1"].blocks[blockIdx'["t1"]] IN
         /\ req'["t1"] = Request(s, sent'[s][Len(sent'[s])].id, "tools/call")
         /\ \E i \in 1..Len(servers) :
              /\ servers[i] = s
              /\ Exposes(s, name)
              /\ \A j \in 1..(i - 1) : ~Exposes(servers[j], name)
         /\ \A o \in Servers \ {s} : sent'[o] = sent[o]]_vars

\* C26 witness: both servers are connected and list "echo"; the call for an
\* "echo" block is in flight to the first of them and the second has been
\* sent no call.
FirstOwnerWitness ==
  /\ servers = Config
  /\ Exposes("s1", "echo") /\ Exposes("s2", "echo")
  /\ pc["t1"] \in {"sleep", "reading"}
  /\ response["t1"].blocks[blockIdx["t1"]] = "echo"
  /\ req["t1"].srv = "s1" /\ req["t1"].method = "tools/call"
  /\ \A k \in 1..Len(sent["s2"]) : sent["s2"][k].method # "tools/call"

\* C25: a received line without the structure of a response (text that is
\* not JSON, or JSON that is no object) is treated like a timeout: the
\* request returns None for it, and it is never recorded as the result of a
\* successful call.
Malformed(line) == line.kind \in {"garbage", "nonobject"}

MalformedLineIsTimeout ==
  /\ \A c \in Callers :
       lastReply[c] # NoReply /\ lastReply[c].line # None => ~Malformed(lastReply[c].line)
  /\ \A t \in Turns : \A k \in 1..Len(tool_results[t]) :
       tool_results[t][k].result # ExtractContent(NonObjectReply([id |-> tool_results[t][k].result.id]))

\* C27: for every raw tool response, extraction does not raise and returns
\* the string this precedence picks: the text items of a content array
\* joined in order; else a direct string result; else the first string among
\* the keys text, message, content, output, data of a structured result;
\* else a dump of the structured result; and a rendered error string when
\* the response carries an error field.  (Where a response has both a result
\* and an error field, either reading of the precedence is accepted.)
StringTextItems(content_items) ==
  SelectSeq(content_items,
            LAMBDA it : /\ IsInstance(it, {"dict"})
                        /\ HasKey(it, "text")
                        /\ IsInstance(it.m["text"], {"str"}))

HasTextItems(rd) ==
  /\ IsInstance(rd, {"dict"})
  /\ HasKey(rd, "content")
  /\ IsInstance(rd.m["content"], {"list"})
  /\ StringTextItems(rd.m["content"].items) # <<>>

StringKeys(rd) ==
  {k \in 1..Len(TextKeys) : HasKey(rd, TextKeys[k]) /\ IsInstance(rd.m[TextKeys[k]], {"str"})}

\* The string the precedence picks for a result, if it picks one.
ByPrecedence(rd) ==
  IF HasTextItems(rd)
  THEN LET items == StringTextItems(rd.m["content"].items)
       IN  <<JoinLines([i \in 1..Len(items) |-> items[i].m["text"]])>>
  ELSE IF IsInstance(rd, {"str"}) THEN <<Lit(rd.v)>>
  ELSE IF IsInstance(rd, {"dict"}) /\ StringKeys(rd) # {}
       THEN <<Lit(rd.m[TextKeys[CHOOSE k \in StringKeys(rd) : \A l \in StringKeys(rd) : k <= l]].v)>>
  ELSE IF IsInstance(rd, {"dict", "list"}) THEN <<Dumps(rd)>>
  ELSE <<>>

IsErrorString(s) == Len(s) >= 1 /\ s[1] = Lit("Error: ")[1]

ExtractionByPrecedence ==
  (extracted # <<>> /\ IsInstance(raw_result, {"dict"})) =>
    LET out == extracted[1]
        picked == IF HasKey(raw_result, "result")
                  THEN ByPrecedence(raw_result.m["result"]) ELSE <<>>
    IN  /\ out.kind = "return"
        /\ picked # <<>> =>
             \/ out.value = picked[1]
             \/ HasKey(raw_result, "error") /\ IsErrorString(out.value)
        /\ (picked = <<>> /\ HasKey(raw_result, "error")) => IsErrorString(out.value)

\* C28: a turn that returns normally returns the text of the last model
\* response it received, as the model wrote it.  A block is replaced in the
\* copy of the text only together with a recorded result, and a response
\* with recorded results is followed by another model call or by the cap, so
\* a text with a replaced block is never returned.
Replaced(t) ==
  {i \in 1..Len(response_with_results[t]) : response_with_results[t][i].sub}

ReturnsLastRawText ==
  \A t \in Turns :
    /\ outcome[t].kind = "returned" =>
         /\ pc[t] = "done"
         /\ response[t].rid = modelCalls[t]
         /\ outcome[t].text = Unsubstituted(response[t])
         /\ (~NoToolCalls(response[t].blocks) /\ tool_results[t] # <<>>) =>
              truncLogged[t] /\ modelCalls[t] = max_iterations
    /\ (pc[t] # "idle" /\ ~NoToolCalls(response[t].blocks)) =>
         /\ \A i \in Replaced(t) :
              \E k \in 1..Len(tool_results[t]) :
                tool_results[t][k] = [tool |-> response_with_results[t][i].blk,
                                      result |-> response_with_results[t][i].content]
         /\ (pc[t] = "await_model" /\ response[t].rid > 0) => tool_results[t] # <<>>

\* C28 witness: after a round that recorded a result, the next response's
\* only call fails and the turn returns that response as it was written.
ReturnsLastRawTextWitness ==
  /\ outcome["t1"].kind = "returned"
  /\ response["t1"].rid = 2
  /\ response["t1"].blocks = <<"echo">>
  /\ productive["t1"] = 1
  /\ tool_results["t1"] = <<>>
  /\ iterLog["t1"] = <<[block |-> 1, event |-> "calling"], [block |-> 1, event |-> "failed"]>>
  /\ outcome["t1"].text = Unsubstituted(response["t1"])

\* C29: the blocks of the response at which the cap is reached are still
\* invoked, but their results go into no message to the model (no model call
\* follows) and not into the returned answer; before the cap, the results of
\* a response are sent in the one follow-up message that comes next, which
\* holds the results of that response only.
Recorded(t) == Len(SelectSeq(iterLog[t], LAMBDA e : e.event = "success"))

CapResultsDiscarded ==
  \A t \in Turns :
    /\ truncLogged[t] =>
         /\ pc[t] = "done"
         /\ response[t].rid = max_iterations
         /\ modelCalls[t] = max_iterations
         /\ productive[t] = max_iterations
         /\ dispatched[t] >= max_iterations
         /\ tool_results[t] # <<>>
         /\ current_message[t] = ResultsMessage(tool_results[t])
         /\ outcome[t] = [kind |-> "returned", text |-> Unsubstituted(response[t])]
    /\ (pc[t] = "await_model" /\ iteration[t] > 1) =>
         /\ iteration[t] = response[t].rid + 1
         /\ modelCalls[t] = productive[t] + 1
         /\ current_message[t] = ResultsMessage(tool_results[t])
         /\ Len(tool_results[t]) = Recorded(t)
         /\ Recorded(t) \in 1..Len(response[t].blocks)
    /\ (pc[t] \in {"sleep", "reading"}) =>
         /\ modelCalls[t] = productive[t] + 1
         /\ Len(tool_results[t]) = Recorded(t)

\* C29 witness: the cap is reached with both blocks of the tenth response
\* invoked and recorded; the message built from them is never sent.
CapResultsDiscardedWitness ==
  /\ truncLogged["t1"]
  /\ modelCalls["t1"] = max_iterations
  /\ Len(tool_results["t1"]) = MaxBlocks
  /\ current_message["t1"] = ResultsMessage(tool_results["t1"])
  /\ \A i \in 1..Len(outcome["t1"].text.items) : ~outcome["t1"].text.items[i].sub

====
